---- MODULE Spec2Model ----
(***************************************************************************)
(* Model of parse_logs.py (AVX Turbo log parser).                          *)
(*                                                                         *)
(* Text is modelled at character level: a Python str is a sequence of      *)
(* one-character strings, so that strip, split, startswith, substring      *)
(* search, glob matching, the regular expressions and int()/float()        *)
(* parsing are computed the way the code computes them.  Floating point    *)
(* values are modelled as exact reduced rationals [n, d]; statistics.mean  *)
(* computes the exact rational mean before rounding once to a float.       *)
(***************************************************************************)
EXTENDS Integers, Sequences, FiniteSets, TLC

(***************************************************************************)
(* Bounds of the model (not program constants).                            *)
(***************************************************************************)
MaxTokens == 2
MaxLines == 2

(***************************************************************************)
(* Generic sequence helpers.                                               *)
(***************************************************************************)
RECURSIVE Concat(_)
Concat(ss) == IF ss = << >> THEN << >> ELSE Head(ss) \o Concat(Tail(ss))

RECURSIVE JoinWith(_, _)
JoinWith(ss, sep) ==
    IF ss = << >> THEN << >>
    ELSE IF Len(ss) = 1 THEN ss[1]
    ELSE ss[1] \o sep \o JoinWith(Tail(ss), sep)

SeqsUpTo(S, n) == UNION { [1..k -> S] : k \in 0..n }

Range(s) == { s[i] : i \in DOMAIN s }

Perms(S) == { p \in [1..Cardinality(S) -> S] : Range(p) = S }

(***************************************************************************)
(* str methods.                                                            *)
(***************************************************************************)
Whitespace == {" ", "\t", "\n", "\r"}

Digits == <<"0", "1", "2", "3", "4", "5", "6", "7", "8", "9">>

IsDigit(c) == \E i \in 1..10 : Digits[i] = c

DigitVal(c) == (CHOOSE i \in 1..10 : Digits[i] = c) - 1

RECURSIVE LStrip(_)
LStrip(s) ==
    IF s # << >> /\ Head(s) \in Whitespace THEN LStrip(Tail(s)) ELSE s

RECURSIVE RStrip(_)
RStrip(s) ==
    IF s # << >> /\ s[Len(s)] \in Whitespace
    THEN RStrip(SubSeq(s, 1, Len(s) - 1))
    ELSE s

Strip(s) == RStrip(LStrip(s))

StartsWith(s, p) == Len(s) >= Len(p) /\ SubSeq(s, 1, Len(p)) = p

Contains(s, sub) ==
    \E i \in 0..(Len(s) - Len(sub)) : SubSeq(s, i + 1, i + Len(sub)) = sub

RECURSIVE SplitAcc(_, _, _)
SplitAcc(s, sep, cur) ==
    IF s = << >> THEN << cur >>
    ELSE IF Head(s) = sep THEN << cur >> \o SplitAcc(Tail(s), sep, << >>)
    ELSE SplitAcc(Tail(s), sep, Append(cur, Head(s)))

Split(s, sep) == SplitAcc(s, sep, << >>)

RECURSIVE Replace(_, _, _)
Replace(s, old, new) ==
    IF s = << >> THEN << >>
    ELSE << IF Head(s) = old THEN new ELSE Head(s) >> \o Replace(Tail(s), old, new)

(***************************************************************************)
(* int(x): optional sign, then decimal digits (single underscores between  *)
(* digits allowed).  IsInt is "int(x) does not raise ValueError".          *)
(***************************************************************************)
Unsigned(s) == IF s # << >> /\ Head(s) \in {"+", "-"} THEN Tail(s) ELSE s

IsNegative(s) == s # << >> /\ Head(s) = "-"

IsDigitRun(s) ==
    /\ s # << >>
    /\ \A i \in DOMAIN s : IsDigit(s[i]) \/ s[i] = "_"
    /\ IsDigit(s[1]) /\ IsDigit(s[Len(s)])
    /\ \A i \in 1..(Len(s) - 1) : ~(s[i] = "_" /\ s[i + 1] = "_")

RECURSIVE DigitsVal(_, _)
DigitsVal(s, acc) ==
    IF s = << >> THEN acc
    ELSE IF Head(s) = "_" THEN DigitsVal(Tail(s), acc)
    ELSE DigitsVal(Tail(s), 10 * acc + DigitVal(Head(s)))

IsInt(x) == IsDigitRun(Unsigned(Strip(x)))

IntOf(x) ==
    LET s == Strip(x)
        v == DigitsVal(Unsigned(s), 0)
    IN  IF IsNegative(s) THEN 0 - v ELSE v

(***************************************************************************)
(* Exact rationals [n, d], d > 0, in lowest terms.                         *)
(***************************************************************************)
RECURSIVE GCD(_, _)
GCD(a, b) == IF b = 0 THEN a ELSE GCD(b, a % b)

Abs(a) == IF a < 0 THEN 0 - a ELSE a

Rat(n, d) ==
    LET g == GCD(Abs(n), d)
    IN  [n |-> n \div g, d |-> d \div g]

Zero == Rat(0, 1)

RatAdd(a, b) == Rat(a.n * b.d + b.n * a.d, a.d * b.d)

RECURSIVE Pow10(_)
Pow10(k) == IF k = 0 THEN 1 ELSE 10 * Pow10(k - 1)

(***************************************************************************)
(* float(x) on decimal literals without exponent: optional sign, digits    *)
(* with at most one '.', at least one digit.  IsFloat is "float(x) does    *)
(* not raise ValueError".  (Exponents, inf and nan are outside the         *)
(* alphabet of the inputs enumerated below.)                               *)
(***************************************************************************)
IsFloat(x) ==
    LET u == Unsigned(Strip(x))
        parts == Split(u, ".")
    IN  /\ Len(parts) \in {1, 2}
        /\ IF Len(parts) = 1 THEN IsDigitRun(parts[1])
           ELSE /\ parts[1] = << >> \/ IsDigitRun(parts[1])
                /\ parts[2] = << >> \/ IsDigitRun(parts[2])
                /\ parts[1] # << >> \/ parts[2] # << >>

NoUnderscore(s) == SelectSeq(s, LAMBDA c : c # "_")

FloatOf(x) ==
    LET s == Strip(x)
        parts == Split(Unsigned(s), ".")
        whole == parts[1]
        frac == IF Len(parts) = 2 THEN NoUnderscore(parts[2]) ELSE << >>
        v == DigitsVal(whole \o frac, 0)
    IN  Rat(IF IsNegative(s) THEN 0 - v ELSE v, Pow10(Len(frac)))

(***************************************************************************)
(* statistics.mean(values): the exact sum divided by the count.            *)
(***************************************************************************)
RECURSIVE RatSum(_)
RatSum(vs) == IF vs = << >> THEN Zero ELSE RatAdd(Head(vs), RatSum(Tail(vs)))

(* The mean as it would be without the division by the count. *)
mean_sum(vs) == RatSum(vs)

mean(vs) == LET s == RatSum(vs) IN Rat(s.n, s.d * Len(vs))

(***************************************************************************)
(* Comparison of str values (by code point), as used in the sort key.      *)
(***************************************************************************)
CodePoints ==
    <<"\t", "\n", "\r", " ", "+", ",", "-", ".", "/",
       "0", "1", "2", "3", "4", "5", "6", "7", "8", "9", ":",
       "A", "B", "C", "D", "E", "F", "G", "H", "I", "J", "K", "L", "M",
       "N", "O", "P", "Q", "R", "S", "T", "U", "V", "W", "X", "Y", "Z",
       "_", "a", "b", "c", "d", "e", "f", "g", "h", "i", "j", "k", "l", "m",
       "n", "o", "p", "q", "r", "s", "t", "u", "v", "w", "x", "y", "z", "|">>

Ord(c) == CHOOSE i \in DOMAIN CodePoints : CodePoints[i] = c

RECURSIVE StrLess(_, _)
StrLess(a, b) ==
    IF b = << >> THEN FALSE
    ELSE IF a = << >> THEN TRUE
    ELSE IF Head(a) = Head(b) THEN StrLess(Tail(a), Tail(b))
    ELSE Ord(Head(a)) < Ord(Head(b))

(***************************************************************************)
(* String literals of the program.                                         *)
(***************************************************************************)
RejectedPrefixes ==
    { <<"/", "/">>,
      <<"C", "P", "U", "I", "D">>,
      <<"R", "u", "n", "n", "i", "n", "g">>,
      <<"M", "S", "R">>,
      <<"C", "P", "U">>,
      <<"c", "p", "u", "i", "d">>,
      <<"t", "s", "c", "_", "f", "r", "e", "q">>,
      <<"a", "v", "a", "i", "l", "a", "b", "l", "e">>,
      <<"p", "h", "y", "s", "i", "c", "a", "l">>,
      <<"W", "i", "l", "l", " ", "t", "e", "s", "t">> }

CoresHeader == <<"C", "o", "r", "e", "s", " ", "|", " ", "I", "D">>

ServerMarker == <<"s", "e", "r", "v", "e", "r", "_", "s">>

DefaultPattern == <<"a", "v", "x", "_", "t", "u", "r", "b", "o", "_", "d", "e", "f", "a", "u", "l", "t", "_">> \o <<"*">> \o <<".", "l", "o", "g">>

SPattern ==
    <<"a", "v", "x", "_", "t", "u", "r", "b", "o", "_", "s">> \o <<"[0-9]", "*">> \o <<"_", "a">> \o <<"[0-9]", "*">> \o <<".", "l", "o", "g">>

ServerSPattern ==
    <<"a", "v", "x", "_", "t", "u", "r", "b", "o", "_", "s", "e", "r", "v", "e", "r", "_", "s">> \o <<"[0-9]", "*">> \o <<"_", "a">> \o <<"[0-9]", "*">> \o <<".", "l", "o", "g">>

SRegexPrefix == <<"a", "v", "x", "_", "t", "u", "r", "b", "o", "_", "s">>

ServerSRegexPrefix == <<"a", "v", "x", "_", "t", "u", "r", "b", "o", "_", "s", "e", "r", "v", "e", "r", "_", "s">>

RegexInfix == <<"_", "a">>

DefaultCsvPrefix == <<"d", "e", "f", "a", "u", "l", "t", "_">>

CsvSuffix == <<".", "c", "s", "v">>

AllSCases == <<"a", "l", "l", "_", "s", "_", "c", "a", "s", "e", "s", ".", "c", "s", "v">>

AllServerSCases == <<"a", "l", "l", "_", "s", "e", "r", "v", "e", "r", "_", "s", "_", "c", "a", "s", "e", "s", ".", "c", "s", "v">>

(***************************************************************************)
(* glob.glob / fnmatch: a pattern is a sequence of literal characters,     *)
(* "*" (any run of characters) and "[0-9]" (one digit); the whole name     *)
(* must match.                                                             *)
(***************************************************************************)
RECURSIVE GlobMatch(_, _)
GlobMatch(pat, s) ==
    IF pat = << >> THEN s = << >>
    ELSE IF Head(pat) = "*"
         THEN GlobMatch(Tail(pat), s) \/ (s # << >> /\ GlobMatch(pat, Tail(s)))
    ELSE /\ s # << >>
         /\ IF Head(pat) = "[0-9]" THEN IsDigit(Head(s)) ELSE Head(s) = Head(pat)
         /\ GlobMatch(Tail(pat), Tail(s))

(***************************************************************************)
(* re.search(prefix (\d+)_a(\d+), name): the leftmost match; both groups   *)
(* are maximal digit runs.  NoMatch stands for None.                       *)
(***************************************************************************)
RECURSIVE DigitRunLen(_)
DigitRunLen(s) ==
    IF s # << >> /\ IsDigit(Head(s)) THEN 1 + DigitRunLen(Tail(s)) ELSE 0

Drop(s, k) == SubSeq(s, k + 1, Len(s))

(* The match as it would be with the two groups taken in the wrong order. *)
MatchAt_swapped(prefix, name, i) ==
    LET rest == Drop(name, i - 1)
        afterP == Drop(rest, Len(prefix))
        n1 == DigitRunLen(afterP)
        afterS == Drop(afterP, n1)
        afterI == Drop(afterS, Len(RegexInfix))
        n2 == DigitRunLen(afterI)
    IN  IF /\ StartsWith(rest, prefix)
           /\ n1 >= 1
           /\ StartsWith(afterS, RegexInfix)
           /\ n2 >= 1
        THEN [matched |-> TRUE,
              s |-> DigitsVal(SubSeq(afterI, 1, n2), 0),
              a |-> DigitsVal(SubSeq(afterP, 1, n1), 0)]
        ELSE [matched |-> FALSE, s |-> 0, a |-> 0]

MatchAt(prefix, name, i) ==
    LET rest == Drop(name, i - 1)
        afterP == Drop(rest, Len(prefix))
        n1 == DigitRunLen(afterP)
        afterS == Drop(afterP, n1)
        afterI == Drop(afterS, Len(RegexInfix))
        n2 == DigitRunLen(afterI)
    IN  IF /\ StartsWith(rest, prefix)
           /\ n1 >= 1
           /\ StartsWith(afterS, RegexInfix)
           /\ n2 >= 1
        THEN [matched |-> TRUE,
              s |-> DigitsVal(SubSeq(afterP, 1, n1), 0),
              a |-> DigitsVal(SubSeq(afterI, 1, n2), 0)]
        ELSE [matched |-> FALSE, s |-> 0, a |-> 0]

NoMatch == [matched |-> FALSE, s |-> 0, a |-> 0]

ReSearch(prefix, name) ==
    LET hits == { i \in 1..Len(name) : MatchAt(prefix, name, i).matched }
    IN  IF hits = {} THEN NoMatch
        ELSE MatchAt(prefix, name, CHOOSE i \in hits : \A j \in hits : i <= j)

(***************************************************************************)
(* State.                                                                  *)
(*   pc      position of main().                                           *)
(*   args    the parsed command line (None is the empty string: every test *)
(*           the code makes on these options is a truthiness test).        *)
(*   fs      the file system: directory path -> (file name -> file).       *)
(*           A log file has lines (or is unreadable: open() raises); a CSV *)
(*           written by the program has a header and rows.                 *)
(*   stdout  what has been printed, as <<message, argument>> pairs.        *)
(*   exc     the exception propagating out of the try block, if any.       *)
(*   additional_output_dir   main's local of that name.                    *)
(***************************************************************************)
VARIABLES pc, args, fs, stdout, exc, additional_output_dir

vars == <<pc, args, fs, stdout, exc, additional_output_dir>>

NoExc == [raised |-> FALSE, msg |-> << >>]

Raised(path) == [raised |-> TRUE, msg |-> path]

LogFile(lines) ==
    [readable |-> TRUE, lines |-> lines, header |-> << >>, rows |-> << >>]

Unreadable ==
    [readable |-> FALSE, lines |-> << >>, header |-> << >>, rows |-> << >>]

CsvFile(header, rows) ==
    [readable |-> TRUE, lines |-> << >>, header |-> header, rows |-> rows]

EmptyDir == [n \in {} |-> Unreadable]

PathJoin(dir, name) ==
    IF dir # << >> /\ dir[Len(dir)] = "/" THEN dir \o name
    ELSE dir \o <<"/">> \o name

RECURSIVE RStripChars(_, _)
RStripChars(s, chars) ==
    IF s # << >> /\ s[Len(s)] \in chars
    THEN RStripChars(SubSeq(s, 1, Len(s) - 1), chars)
    ELSE s

(* A directory is known to the file system by its path without trailing '/'. *)
Canon(dir) == RStripChars(dir, {"/"})

RECURSIVE basename(_)
basename(path) ==
    IF path = << >> \/ path[Len(path)] = "/" THEN << >>
    ELSE Append(basename(SubSeq(path, 1, Len(path) - 1)), path[Len(path)])

exists(f, dir) == Canon(dir) \in DOMAIN f

makedirs(f, dir) == IF exists(f, dir) THEN f ELSE (Canon(dir) :> EmptyDir) @@ f

WriteFile(f, dir, name, file) == [f EXCEPT ![Canon(dir)] = (name :> file) @@ @]

ReadFile(dir, name) == fs[Canon(dir)][name]

glob(dir, pat) ==
    IF exists(fs, dir)
    THEN { n \in DOMAIN fs[Canon(dir)] : GlobMatch(pat, n) }
    ELSE {}

(***************************************************************************)
(* Line classification, as written at the head of each of the three line   *)
(* loops.                                                                  *)
(***************************************************************************)
SkipLine(line) ==
    \/ Strip(line) = << >>
    \/ \E p \in RejectedPrefixes : StartsWith(line, p)

(***************************************************************************)
(* [float(x.strip()) for x in s.split(',') if x.strip()]                   *)
(***************************************************************************)
Tokens(s) == SelectSeq(Split(s, ","), LAMBDA x : Strip(x) # << >>)

FloatsOk(s) == \A i \in DOMAIN Tokens(s) : IsFloat(Strip(Tokens(s)[i]))

FloatList(s) == [i \in DOMAIN Tokens(s) |-> FloatOf(Strip(Tokens(s)[i]))]

Average(values) == IF values # << >> THEN mean(values) ELSE Zero

AmMhzStr(parts) == IF Len(parts) >= 7 THEN Strip(parts[7]) ELSE <<"0">>

(***************************************************************************)
(* Body of the line loop of parse_default_logs: the entries (none or one)  *)
(* that the line appends to instruction_data.                              *)
(***************************************************************************)
(* The loop body as it would be if an unparsable A/M-MHz field counted as 0 *)
(* instead of rejecting the line.                                          *)
default_entry_lenient(line) ==
    IF SkipLine(line) THEN << >>
    ELSE IF Contains(line, CoresHeader) THEN << >>
    ELSE LET parts == Split(Strip(line), "|")
         IN  IF Len(parts) >= 5
             THEN IF ~IsInt(Strip(parts[1])) THEN << >>
                  ELSE IF ~FloatsOk(Strip(parts[5])) THEN << >>
                  ELSE << [Cores |-> IntOf(Strip(parts[1])),
                           ID |-> Strip(parts[2]),
                           Description |-> Strip(parts[3]),
                           Mops |-> Average(FloatList(Strip(parts[5]))),
                           AMMHz |-> IF FloatsOk(AmMhzStr(parts))
                                     THEN Average(FloatList(AmMhzStr(parts)))
                                     ELSE Zero] >>
             ELSE << >>

default_entry(line) ==
    IF SkipLine(line) THEN << >>
    ELSE IF StartsWith(line, CoresHeader) THEN << >>
    ELSE IF Contains(line, CoresHeader) THEN << >>
    ELSE LET parts == Split(Strip(line), "|")
         IN  IF Len(parts) >= 5
             THEN IF ~IsInt(Strip(parts[1])) THEN << >>
                  ELSE IF ~FloatsOk(Strip(parts[5])) THEN << >>
                  ELSE IF ~FloatsOk(AmMhzStr(parts)) THEN << >>
                  ELSE << [Cores |-> IntOf(Strip(parts[1])),
                           ID |-> Strip(parts[2]),
                           Description |-> Strip(parts[3]),
                           Mops |-> Average(FloatList(Strip(parts[5]))),
                           AMMHz |-> Average(FloatList(AmMhzStr(parts)))] >>
             ELSE << >>

(***************************************************************************)
(* Body of the line loop of parse_s_logs and of parse_server_s_logs, which *)
(* differ in the regular expression only (given by its literal prefix).    *)
(***************************************************************************)
variant_entry(line, file_name, prefix) ==
    IF SkipLine(line) THEN << >>
    ELSE IF Contains(line, CoresHeader) THEN << >>
    ELSE LET s_match == ReSearch(prefix, file_name)
             parts == Split(Strip(line), "|")
         IN  IF ~s_match.matched THEN << >>
             ELSE IF Len(parts) >= 5
             THEN IF ~IsInt(Strip(parts[1])) THEN << >>
                  ELSE IF ~FloatsOk(AmMhzStr(parts)) THEN << >>
                  ELSE << [Cores |-> IntOf(Strip(parts[1])),
                           ID |-> Strip(parts[2]),
                           SValue |-> s_match.s,
                           AValue |-> s_match.a,
                           AMMHz |-> Average(FloatList(AmMhzStr(parts)))] >>
             ELSE << >>

s_entry(line, file_name) == variant_entry(line, file_name, SRegexPrefix)

(* The server loop body as it would be with the s-log regular expression. *)
server_s_entry_s_regex(line, file_name) == variant_entry(line, file_name, SRegexPrefix)

server_s_entry(line, file_name) == variant_entry(line, file_name, ServerSRegexPrefix)

(***************************************************************************)
(* instruction_data: a dict of dicts of lists.  A dict is the sequence of  *)
(* its items in insertion order.                                           *)
(***************************************************************************)
KeyIndex(d, k) ==
    IF \E i \in DOMAIN d : d[i].key = k
    THEN CHOOSE i \in DOMAIN d : d[i].key = k
    ELSE 0

AppendAt(d, k, e) ==
    IF KeyIndex(d, k) = 0 THEN Append(d, [key |-> k, val |-> << e >>])
    ELSE [d EXCEPT ![KeyIndex(d, k)].val = Append(@, e)]

StoreEntry(data, e) ==
    IF KeyIndex(data, e.ID) = 0
    THEN Append(data, [key |-> e.ID, val |-> AppendAt(<< >>, e.Cores, e)])
    ELSE [data EXCEPT ![KeyIndex(data, e.ID)].val = AppendAt(@, e.Cores, e)]

RECURSIVE StoreAll(_, _)
StoreAll(data, es) ==
    IF es = << >> THEN data ELSE StoreAll(StoreEntry(data, Head(es)), Tail(es))

(***************************************************************************)
(* sorted(cores_data.keys()) and list.sort(key=...): stable insertion      *)
(* sorts.                                                                  *)
(***************************************************************************)
IntLess(a, b) == a < b

SortKeyLess(x, y) ==
    \/ x.Cores < y.Cores
    \/ /\ x.Cores = y.Cores
       /\ \/ x.SValue < y.SValue
          \/ /\ x.SValue = y.SValue
             /\ \/ x.AValue < y.AValue
                \/ x.AValue = y.AValue /\ StrLess(x.ID, y.ID)

RECURSIVE InsertInt(_, _)
InsertInt(s, x) ==
    IF s = << >> THEN << x >>
    ELSE IF IntLess(x, Head(s)) THEN << x >> \o s
    ELSE << Head(s) >> \o InsertInt(Tail(s), x)

RECURSIVE sorted(_)
sorted(s) ==
    IF s = << >> THEN << >>
    ELSE InsertInt(sorted(SubSeq(s, 1, Len(s) - 1)), s[Len(s)])

RECURSIVE InsertEntry(_, _)
InsertEntry(s, x) ==
    IF s = << >> THEN << x >>
    ELSE IF SortKeyLess(x, Head(s)) THEN << x >> \o s
    ELSE << Head(s) >> \o InsertEntry(Tail(s), x)

(* The sort as it would be with the core count as its only key. *)
RECURSIVE InsertByCores(_, _)
InsertByCores(s, x) ==
    IF s = << >> THEN << x >>
    ELSE IF x.Cores < Head(s).Cores THEN << x >> \o s
    ELSE << Head(s) >> \o InsertByCores(Tail(s), x)

RECURSIVE sort_by_cores(_)
sort_by_cores(s) ==
    IF s = << >> THEN << >>
    ELSE InsertByCores(sort_by_cores(SubSeq(s, 1, Len(s) - 1)), s[Len(s)])

RECURSIVE sort(_)
sort(s) ==
    IF s = << >> THEN << >>
    ELSE InsertEntry(sort(SubSeq(s, 1, Len(s) - 1)), s[Len(s)])

(***************************************************************************)
(* parse_default_logs(log_dir, output_dir).  order is the order in which   *)
(* glob.glob returned the matching files.  The result is the file system   *)
(* after the call, what was printed, and the exception raised (if any).    *)
(***************************************************************************)
DefaultHeader == <<"Cores", "ID", "Description", "Mops", "A/M-MHz">>

VariantHeader == <<"Cores", "ID", "S Value", "A Value", "A/M-MHz">>

EntriesOfDefault(lines) == Concat([i \in DOMAIN lines |-> default_entry(lines[i])])

RECURSIVE default_loop(_, _, _, _)
default_loop(log_dir, files, instruction_data, out) ==
    IF files = << >>
    THEN [data |-> instruction_data, out |-> out, exc |-> NoExc]
    ELSE LET name == Head(files)
             out1 == Append(out, <<"  Processing", name>>)
         IN  IF ~ReadFile(log_dir, name).readable
             THEN [data |-> instruction_data, out |-> out1,
                   exc |-> Raised(PathJoin(log_dir, name))]
             ELSE default_loop(log_dir, Tail(files),
                      StoreAll(instruction_data,
                               EntriesOfDefault(ReadFile(log_dir, name).lines)),
                      out1)

safe_id(instr_id) == Replace(Replace(instr_id, "/", "_"), " ", "_")

DefaultCsvName(instr_id) == DefaultCsvPrefix \o safe_id(instr_id) \o CsvSuffix

CoresRows(cores_data) ==
    LET keys == sorted([i \in DOMAIN cores_data |-> cores_data[i].key])
    IN  Concat([i \in DOMAIN keys |-> cores_data[KeyIndex(cores_data, keys[i])].val])

RECURSIVE write_default(_, _, _)
write_default(f, output_dir, instruction_data) ==
    IF instruction_data = << >> THEN f
    ELSE write_default(
             WriteFile(f, output_dir, DefaultCsvName(Head(instruction_data).key),
                       CsvFile(DefaultHeader, CoresRows(Head(instruction_data).val))),
             output_dir, Tail(instruction_data))

parse_default_logs(log_dir, output_dir, order) ==
    LET r == default_loop(log_dir, order, << >>,
                          << <<"Processing default logs...", << >> >> >>)
    IN  IF r.exc.raised THEN [fs |-> fs, out |-> r.out, exc |-> r.exc]
        ELSE [fs |-> write_default(makedirs(fs, output_dir), output_dir, r.data),
              out |-> Append(r.out, <<"Default logs processed.", output_dir>>),
              exc |-> NoExc]

(***************************************************************************)
(* parse_s_logs(log_dir, output_dir).                                      *)
(***************************************************************************)
EntriesOfS(lines, name) ==
    Concat([i \in DOMAIN lines |-> s_entry(lines[i], name)])

IsServerLog(log_file) == Contains(log_file, ServerMarker)

RECURSIVE s_loop(_, _, _, _)
s_loop(log_dir, files, s_data, out) ==
    IF files = << >> THEN [data |-> s_data, out |-> out, exc |-> NoExc]
    ELSE LET name == Head(files)
             out1 == Append(out, <<"  Processing", name>>)
         IN  IF IsServerLog(PathJoin(log_dir, name))
             THEN s_loop(log_dir, Tail(files), s_data, out)
             ELSE IF ~ReadFile(log_dir, name).readable
             THEN [data |-> s_data, out |-> out1,
                   exc |-> Raised(PathJoin(log_dir, name))]
             ELSE s_loop(log_dir, Tail(files),
                         s_data \o EntriesOfS(ReadFile(log_dir, name).lines, name),
                         out1)

parse_s_logs(log_dir, output_dir, order) ==
    LET r == s_loop(log_dir, order, << >>, << <<"Processing s* logs...", << >> >> >>)
    IN  IF r.exc.raised THEN [fs |-> fs, out |-> r.out, exc |-> r.exc]
        ELSE [fs |-> WriteFile(makedirs(fs, output_dir), output_dir, AllSCases,
                               CsvFile(VariantHeader, sort(r.data))),
              out |-> Append(r.out, <<"S* logs processed.",
                                      PathJoin(output_dir, AllSCases)>>),
              exc |-> NoExc]

(***************************************************************************)
(* parse_server_s_logs(log_dir, output_dir).                               *)
(***************************************************************************)
EntriesOfServerS(lines, name) ==
    Concat([i \in DOMAIN lines |-> server_s_entry(lines[i], name)])

RECURSIVE server_s_loop(_, _, _, _)
server_s_loop(log_dir, files, server_s_data, out) ==
    IF files = << >> THEN [data |-> server_s_data, out |-> out, exc |-> NoExc]
    ELSE LET name == Head(files)
             out1 == Append(out, <<"  Processing", name>>)
         IN  IF ~ReadFile(log_dir, name).readable
             THEN [data |-> server_s_data, out |-> out1,
                   exc |-> Raised(PathJoin(log_dir, name))]
             ELSE server_s_loop(log_dir, Tail(files),
                      server_s_data
                          \o EntriesOfServerS(ReadFile(log_dir, name).lines, name),
                      out1)

parse_server_s_logs(log_dir, output_dir, order) ==
    LET r == server_s_loop(log_dir, order, << >>,
                           << <<"Processing server_s* logs...", << >> >> >>)
    IN  IF r.exc.raised THEN [fs |-> fs, out |-> r.out, exc |-> r.exc]
        ELSE [fs |-> WriteFile(makedirs(fs, output_dir), output_dir, AllServerSCases,
                               CsvFile(VariantHeader, sort(r.data))),
              out |-> Append(r.out, <<"Server s* logs processed.",
                                      PathJoin(output_dir, AllServerSCases)>>),
              exc |-> NoExc]

(***************************************************************************)
(* main().  A stage call is one step; an exception raised in the try block *)
(* leaves the block (exc set, pc at the except clause).                    *)
(***************************************************************************)
(* The call as it would be with one try block around each stage. *)
Call_PerStageTry(r, next, handler) ==
    /\ fs' = r.fs
    /\ stdout' = stdout \o r.out
              \o (IF r.exc.raised THEN << <<"ERROR:", r.exc.msg>> >> ELSE << >>)
    /\ exc' = NoExc
    /\ pc' = next
    /\ UNCHANGED <<args, additional_output_dir>>

Call(r, next, handler) ==
    /\ fs' = r.fs
    /\ stdout' = stdout \o r.out
    /\ exc' = r.exc
    /\ pc' = IF r.exc.raised THEN handler ELSE next
    /\ UNCHANGED <<args, additional_output_dir>>

(* The check as it would be without its return statement. *)
MainCheckInput_NoReturn ==
    /\ pc = "L308"
    /\ fs' = makedirs(fs, args.output_dir)
    /\ stdout' = stdout \o
           (IF ~exists(fs, args.input_dir)
            THEN << <<"Input directory:", args.input_dir>>,
                    <<"Output directory:", args.output_dir>>,
                    <<"ERROR: Input directory does not exist!", args.input_dir>>,
                    <<"Created output directory:", args.output_dir>> >>
            ELSE << <<"Input directory:", args.input_dir>>,
                    <<"Output directory:", args.output_dir>>,
                    <<"Created output directory:", args.output_dir>> >>)
    /\ pc' = "L318"
    /\ UNCHANGED <<args, exc, additional_output_dir>>

MainCheckInput ==
    /\ pc = "L308"
    /\ IF ~exists(fs, args.input_dir)
       THEN /\ stdout' = stdout \o << <<"Input directory:", args.input_dir>>,
                                      <<"Output directory:", args.output_dir>>,
                                      <<"ERROR: Input directory does not exist!",
                                        args.input_dir>> >>
            /\ pc' = "done"
            /\ UNCHANGED fs
       ELSE /\ fs' = makedirs(fs, args.output_dir)
            /\ stdout' = stdout \o << <<"Input directory:", args.input_dir>>,
                                      <<"Output directory:", args.output_dir>>,
                                      <<"Created output directory:", args.output_dir>> >>
            /\ pc' = "L318"
    /\ UNCHANGED <<args, exc, additional_output_dir>>

PrimaryDefault ==
    /\ pc = "L318"
    /\ \E order \in Perms(glob(args.input_dir, DefaultPattern)) :
           Call(parse_default_logs(args.input_dir, args.output_dir, order),
                "L319", "L322")

PrimaryS ==
    /\ pc = "L319"
    /\ \E order \in Perms(glob(args.input_dir, SPattern)) :
           Call(parse_s_logs(args.input_dir, args.output_dir, order), "L320", "L322")

PrimaryServerS ==
    /\ pc = "L320"
    /\ \E order \in Perms(glob(args.input_dir, ServerSPattern)) :
           Call(parse_server_s_logs(args.input_dir, args.output_dir, order),
                "L321", "L322")

PrimarySuccess ==
    /\ pc = "L321"
    /\ stdout' = Append(stdout, <<"All log files processed successfully.", << >> >>)
    /\ pc' = "L326"
    /\ UNCHANGED <<args, fs, exc, additional_output_dir>>

(* The handler as it would be if the exception ended the run. *)
PrimaryExcept_Fatal ==
    /\ pc = "L322"
    /\ stdout' = Append(stdout, <<"ERROR:", exc.msg>>)
    /\ exc' = NoExc
    /\ pc' = "done"
    /\ UNCHANGED <<args, fs, additional_output_dir>>

PrimaryExcept ==
    /\ pc = "L322"
    /\ stdout' = Append(stdout, <<"ERROR:", exc.msg>>)
    /\ exc' = NoExc
    /\ pc' = "L326"
    /\ UNCHANGED <<args, fs, additional_output_dir>>

DerivedOutputDir ==
    args.output_dir \o <<"_">> \o basename(RStripChars(args.additional_dir, {"/", "\\"}))

MainAdditional ==
    /\ pc = "L326"
    /\ IF args.additional_dir # << >> /\ exists(fs, args.additional_dir)
       THEN LET dir == IF args.additional_output_dir # << >>
                       THEN args.additional_output_dir
                       ELSE DerivedOutputDir
            IN  /\ additional_output_dir' = dir
                /\ fs' = makedirs(fs, dir)
                /\ stdout' = stdout \o
                       << <<"Processing additional directory:", args.additional_dir>>,
                          <<"Created additional output directory:", dir>> >>
                /\ pc' = "L339"
       ELSE /\ pc' = "done"
            /\ UNCHANGED <<fs, stdout, additional_output_dir>>
    /\ UNCHANGED <<args, exc>>

AdditionalDefault ==
    /\ pc = "L339"
    /\ \E order \in Perms(glob(args.additional_dir, DefaultPattern)) :
           Call(parse_default_logs(args.additional_dir, additional_output_dir, order),
                "L340", "L343")

AdditionalS ==
    /\ pc = "L340"
    /\ \E order \in Perms(glob(args.additional_dir, SPattern)) :
           Call(parse_s_logs(args.additional_dir, additional_output_dir, order),
                "L341", "L343")

AdditionalServerS ==
    /\ pc = "L341"
    /\ \E order \in Perms(glob(args.additional_dir, ServerSPattern)) :
           Call(parse_server_s_logs(args.additional_dir, additional_output_dir, order),
                "L342", "L343")

AdditionalSuccess ==
    /\ pc = "L342"
    /\ stdout' = Append(stdout, <<"All log files in dir processed successfully.",
                                  args.additional_dir>>)
    /\ pc' = "done"
    /\ UNCHANGED <<args, fs, exc, additional_output_dir>>

AdditionalExcept ==
    /\ pc = "L343"
    /\ stdout' = Append(stdout, <<"ERROR processing:", exc.msg>>)
    /\ exc' = NoExc
    /\ pc' = "done"
    /\ UNCHANGED <<args, fs, additional_output_dir>>

Next ==
    \/ MainCheckInput
    \/ PrimaryDefault
    \/ PrimaryS
    \/ PrimaryServerS
    \/ PrimarySuccess
    \/ PrimaryExcept
    \/ MainAdditional
    \/ AdditionalDefault
    \/ AdditionalS
    \/ AdditionalServerS
    \/ AdditionalSuccess
    \/ AdditionalExcept

(***************************************************************************)
(* Inputs: command lines and file systems the program is started on.       *)
(***************************************************************************)
Emr == <<".", "/", "e", "m", "r">>

ServerStats == <<"s", "e", "r", "v", "e", "r", "_", "s", "t", "a", "t", "s">>

CsvResults == <<".", "/", "c", "s", "v", "_", "r", "e", "s", "u", "l", "t", "s">>

Extra == <<"9", "8", "2", "5">>

ExtraSlash == <<"9", "8", "2", "5", "/">>

ExtraOut == <<"o", "u", "t", "2">>

Def1 == <<"a", "v", "x", "_", "t", "u", "r", "b", "o", "_", "d", "e", "f", "a", "u", "l", "t", "_", "1", ".", "l", "o", "g">>

Def2 == <<"a", "v", "x", "_", "t", "u", "r", "b", "o", "_", "d", "e", "f", "a", "u", "l", "t", "_", "2", ".", "l", "o", "g">>

S2A4 == <<"a", "v", "x", "_", "t", "u", "r", "b", "o", "_", "s", "2", "_", "a", "4", ".", "l", "o", "g">>

ServerS2A4 == <<"a", "v", "x", "_", "t", "u", "r", "b", "o", "_", "s", "e", "r", "v", "e", "r", "_", "s", "2", "_", "a", "4", ".", "l", "o", "g">>

VariantNames ==
    { S2A4,
      <<"a", "v", "x", "_", "t", "u", "r", "b", "o", "_", "s", "1", "_", "a", "1", "0", ".", "l", "o", "g">>,
      <<"a", "v", "x", "_", "t", "u", "r", "b", "o", "_", "s", "X", "_", "a", "4", ".", "l", "o", "g">>,
      <<"a", "v", "x", "_", "t", "u", "r", "b", "o", "_", "s", "1", "x", "_", "a", "4", ".", "l", "o", "g">>,
      <<"a", "v", "x", "_", "t", "u", "r", "b", "o", "_", "s", "0", "3", "_", "a", "4", ".", "l", "o", "g">>,
      ServerS2A4,
      <<"a", "v", "x", "_", "t", "u", "r", "b", "o", "_", "s", "e", "r", "v", "e", "r", "_", "s", "1", "_", "a", "3", ".", "l", "o", "g">>,
      <<"a", "v", "x", "_", "t", "u", "r", "b", "o", "_", "s", "e", "r", "v", "e", "r", "_", "s", "X", "_", "a", "4", ".", "l", "o", "g">> }

Line(fields) == JoinWith(fields, <<"|">>) \o <<"\n">>

CommandLine(input_dir, output_dir, additional_dir, additional_out) ==
    [input_dir |-> input_dir, output_dir |-> output_dir,
     additional_dir |-> additional_dir, additional_output_dir |-> additional_out]

(* One line, of every shape, in a default, an s and a server_s log. *)
NumberTokens == { <<"1">>, <<"2", ".", "5">>, <<"x">>, <<" ">> }

TokenLists == { JoinWith(ts, <<",">>) : ts \in SeqsUpTo(NumberTokens, MaxTokens) }

ShortTokenLists == { JoinWith(ts, <<",">>) : ts \in SeqsUpTo(NumberTokens, 1) }

DataLines ==
    { Line(<< <<"1">>, <<"a">>, <<"d">>, << >>, t4, << >>, t6 >>) :
          t4 \in TokenLists, t6 \in ShortTokenLists }
    \cup { Line(<< <<"1">>, <<"a">>, <<"d">>, << >>, t4, << >>, t6 >>) :
          t4 \in ShortTokenLists, t6 \in TokenLists }
    \cup { Line(<< <<" ", "3", " ">>, <<" ", "a", "/", "b", " ">>, <<"d">>, << >>, t4 >>) :
          t4 \in TokenLists }

OddLines ==
    { lead \o Line(<< f0, id[1], id[2], << >>, t4, << >>, t6 >>) :
          lead \in { << >>, <<"C", "P", "U", "I", "D">>, <<" ">>, <<"/", "/">> },
          f0 \in { <<"1">>, <<"x">>, << >>, <<"-", "2">> },
          id \in { << <<"a">>, <<"d">> >>, << <<"C", "o", "r", "e", "s", " ">>, <<" ", "I", "D">> >> },
          t4 \in { <<"1">>, <<"x">> },
          t6 \in { <<"3">>, <<"x">> } }
    \cup { Line(<< <<"1">>, <<"a">>, <<"d">>, <<"1">> >>),
           Line(<< <<"1">>, <<"a">>, <<"d">>, <<"1">>, <<"4">>, <<"x">> >>),
           <<"1", "|", "a", "|", "d", "|", "|", "3", ",", "5">>,
           <<"\n">>, <<" ", " ", "\n">> }

RichLines == DataLines \cup OddLines

LineInputs ==
    { [args |-> CommandLine(Emr, CsvResults, << >>, << >>),
       fs |-> (Emr :> [n \in {Def1, S2A4, ServerS2A4} |-> LogFile(<< l >>)])] :
          l \in RichLines }

(* Default logs whose records share, or nearly share, instruction ids. *)
GroupLines ==
    { <<"2", "|", "a", "/", "b", "|", "w", "|", "|", "4", "|", "|", "2", "\n">>,
      <<"1", "|", "a", "/", "b", "|", "x", "|", "|", "2", "|", "|", "4", "\n">>,
      <<"1", "|", "a", "_", "b", "|", "y", "|", "|", "2", "|", "|", "4", "\n">>,
      <<"1", "|", "a", "/", "b", "|", "z", "|", "|", "6", "|", "|", "2", "\n">> }

GroupContents == SeqsUpTo(GroupLines, MaxLines)

GroupInputs ==
    UNION { { [args |-> CommandLine(Emr, CsvResults, << >>, << >>),
               fs |-> (Emr :> [n \in ns |-> LogFile(c[n])])] :
                  c \in { f \in [ns -> GroupContents] :
                              Def2 \in ns => Len(f[Def2]) <= 1 } } :
            ns \in SUBSET {Def1, Def2} }

(* s and server_s logs under several names; every line carries the name   *)
(* of its file in its instruction id, after a one-letter tag.              *)
NameLine(cores, tag, name) ==
    Line(<< cores, tag \o name, <<"d">>, << >>, <<"1">>, << >>, <<"3">> >>)

NameContents(name) ==
    { << NameLine(<<"2">>, <<"b">>, name) >>,
      << NameLine(<<"2">>, <<"b">>, name), NameLine(<<"2">>, <<"a">>, name),
         NameLine(<<"1">>, <<"c">>, name) >> }

NameInputs ==
    UNION { { [args |-> CommandLine(dir, CsvResults, << >>, << >>),
               fs |-> (dir :> [n \in ns |-> LogFile(c[n])])] :
                  c \in { f \in [ns -> UNION { NameContents(n) : n \in ns }] :
                              \A n \in ns : f[n] \in NameContents(n) } } :
            <<dir, ns>> \in { Emr, ServerStats }
                            \X { s \in SUBSET VariantNames : Cardinality(s) <= 2 } }

(* Command lines with and without an additional directory, directories     *)
(* that exist or not, log files that can be read or not.                   *)
GoodLine == Line(<< <<"1">>, <<"a">>, <<"d">>, << >>, <<"2">>, << >>, <<"3">> >>)

Readability == [{Def1, S2A4, ServerS2A4} -> BOOLEAN]

DirOf(r) == [n \in DOMAIN r |-> IF r[n] THEN LogFile(<< GoodLine >>) ELSE Unreadable]

RunInputs ==
    { [args |-> CommandLine(Emr, CsvResults, x.dir, x.out),
       fs |-> [d \in (IF x.in THEN {Emr} ELSE {})
                     \cup (IF x.dir # << >> /\ x.ex THEN {Extra} ELSE {}) |->
                   IF d = Emr THEN DirOf(x.r1) ELSE DirOf(x.r2)]] :
          x \in [in : BOOLEAN, dir : { << >>, Extra, ExtraSlash }, ex : BOOLEAN,
                 out : { << >>, ExtraOut }, r1 : Readability, r2 : Readability] }

Inputs == LineInputs \cup GroupInputs \cup NameInputs \cup RunInputs

Init ==
    /\ pc = "L308"
    /\ stdout = << >>
    /\ exc = NoExc
    /\ additional_output_dir = << >>
    /\ \E x \in Inputs : args = x.args /\ fs = x.fs

Spec == Init /\ [][Next]_vars

(***************************************************************************)
(* Vocabulary of the properties.                                           *)
(***************************************************************************)
Done == pc = "done"

StageOrder ==
    <<"Processing default logs...", "Processing s* logs...",
      "Processing server_s* logs...">>

ErrorReports == {"ERROR:", "ERROR processing:"}

Tags(out) == [i \in DOMAIN out |-> out[i][1]]

Printed(tag) == \E i \in DOMAIN stdout : stdout[i][1] = tag

(* What main printed for the primary pair and for the additional pair. *)
SplitPoint ==
    IF Printed("Processing additional directory:")
    THEN CHOOSE i \in DOMAIN stdout : stdout[i][1] = "Processing additional directory:"
    ELSE Len(stdout) + 1

PrimaryOutput == SubSeq(stdout, 1, SplitPoint - 1)

AdditionalOutput == SubSeq(stdout, SplitPoint, Len(stdout))

StagesStarted(out) == SelectSeq(Tags(out), LAMBDA m : m \in Range(StageOrder))

IsPrefix(s, u) == Len(s) <= Len(u) /\ SubSeq(u, 1, Len(s)) = s

AdditionalAvailable ==
    args.additional_dir # << >> /\ exists(fs, args.additional_dir)

(***************************************************************************)
(* C1.  An error raised by a stage of the primary sequence is caught and   *)
(* reported, and the additional sequence still runs whenever an additional *)
(* directory is configured and exists; an error raised in the additional   *)
(* sequence is caught and reported too.                                    *)
(***************************************************************************)
C1_PrimaryErrorCaught ==
    /\ [][(pc \in {"L318", "L319", "L320"} /\ exc'.raised) => pc' = "L322"]_vars
    /\ [][(pc = "L322") =>
             /\ exc.raised /\ ~exc'.raised
             /\ stdout' = Append(stdout, <<"ERROR:", exc.msg>>)
             /\ pc' = "L326"]_vars
    /\ [][(pc = "L326" /\ AdditionalAvailable) => pc' = "L339"]_vars
    /\ [][(pc \in {"L339", "L340", "L341"} /\ exc'.raised) => pc' = "L343"]_vars
    /\ [][(pc = "L343") =>
             /\ exc.raised /\ ~exc'.raised
             /\ stdout' = Append(stdout, <<"ERROR processing:", exc.msg>>)
             /\ pc' = "done"]_vars
    /\ [](Done /\ Printed("ERROR:") /\ AdditionalAvailable
            => StagesStarted(AdditionalOutput) # << >>)

C1_Witness ==
    /\ Done
    /\ Printed("ERROR:")
    /\ Printed("ERROR processing:")
    /\ Len(StagesStarted(AdditionalOutput)) = 3

(***************************************************************************)
(* C2 as claimed.  Every stage after a failed one still runs: in each      *)
(* directory pair whose default stage started, the s stage and the         *)
(* server_s stage started as well.                                         *)
(***************************************************************************)
C2_AllStagesRun ==
    Done =>
        /\ StagesStarted(PrimaryOutput) \in {<< >>, StageOrder}
        /\ StagesStarted(AdditionalOutput) \in {<< >>, StageOrder}

(***************************************************************************)
(* C2 as amended.  The exception of a stage is caught and reported by      *)
(* main, the stages of the same directory pair that follow the failed one  *)
(* are skipped (the report is the last thing done for the pair), and the   *)
(* additional pair is still processed after a primary failure.             *)
(***************************************************************************)
ReportEndsPair(out) ==
    \A i \in DOMAIN out : out[i][1] \in ErrorReports => i = Len(out)

PairOutcome(out, success) ==
    \/ /\ StagesStarted(out) = StageOrder
       /\ Tags(out)[Len(out)] = success
    \/ /\ StagesStarted(out) # << >>
       /\ Tags(out)[Len(out)] \in ErrorReports
       /\ ~\E i \in DOMAIN out : out[i][1] = success

C2_FailureSkipsRestOfPair ==
    /\ IsPrefix(StagesStarted(PrimaryOutput), StageOrder)
    /\ IsPrefix(StagesStarted(AdditionalOutput), StageOrder)
    /\ ReportEndsPair(PrimaryOutput)
    /\ ReportEndsPair(AdditionalOutput)
    /\ (Done /\ StagesStarted(PrimaryOutput) # << >>) =>
           /\ PairOutcome(PrimaryOutput, "All log files processed successfully.")
           /\ AdditionalAvailable =>
                  PairOutcome(AdditionalOutput,
                              "All log files in dir processed successfully.")

C2_Witness ==
    /\ Done
    /\ StagesStarted(PrimaryOutput) = <<"Processing default logs...">>
    /\ Printed("ERROR:")
    /\ StagesStarted(AdditionalOutput) = SubSeq(StageOrder, 1, 2)
    /\ Printed("ERROR processing:")

(***************************************************************************)
(* C3.  When the primary input directory does not exist, main reports it   *)
(* and stops: no stage is invoked on either pair and no output directory   *)
(* or CSV file is created.                                                 *)
(***************************************************************************)
CsvFiles(f) ==
    { <<d, n>> \in UNION { {d} \X DOMAIN f[d] : d \in DOMAIN f } :
          f[d][n].header # << >> }

C3_MissingInputHalts ==
    (Done /\ ~exists(fs, args.input_dir)) =>
        /\ Tags(stdout) = <<"Input directory:", "Output directory:",
                            "ERROR: Input directory does not exist!">>
        /\ ~exists(fs, args.output_dir)
        /\ ~exists(fs, ExtraOut)
        /\ ~exists(fs, DerivedOutputDir)
        /\ additional_output_dir = << >>
        /\ CsvFiles(fs) = {}

C3_Witness ==
    /\ Done
    /\ ~exists(fs, args.input_dir)
    /\ AdditionalAvailable
    /\ \E n \in DOMAIN fs[Canon(args.additional_dir)] :
           fs[Canon(args.additional_dir)][n].readable

(***************************************************************************)
(* Vocabulary of the properties about one stage: the files the stage that  *)
(* ran last has read, in the order it read them, and the files it wrote.   *)
(***************************************************************************)
LastStart ==
    CHOOSE i \in DOMAIN stdout :
        /\ stdout[i][1] \in Range(StageOrder)
        /\ \A j \in DOMAIN stdout : stdout[j][1] \in Range(StageOrder) => j <= i

FilesRead ==
    LET out == SubSeq(stdout, LastStart, Len(stdout))
        msgs == SelectSeq(out, LAMBDA m : m[1] = "  Processing")
    IN  [i \in DOMAIN msgs |-> msgs[i][2]]

AfterDefault == pc \in {"L319", "L340"}

AfterS == pc \in {"L320", "L341"}

AfterServerS == pc \in {"L321", "L342"}

OnAdditional == pc \in {"L340", "L341", "L342"}

InDir == Canon(IF OnAdditional THEN args.additional_dir ELSE args.input_dir)

OutDir == Canon(IF OnAdditional THEN additional_output_dir ELSE args.output_dir)

DefaultCsvs == { n \in DOMAIN fs[OutDir] : StartsWith(n, DefaultCsvPrefix) }

Rows(name) ==
    IF name \in DOMAIN fs[OutDir] THEN fs[OutDir][name].rows ELSE << >>

Count(s, x) == Cardinality({ i \in DOMAIN s : s[i] = x })

IsPermutation(a, b) ==
    /\ Len(a) = Len(b)
    /\ \A x \in Range(a) \cup Range(b) : Count(a, x) = Count(b, x)

DefaultEncountered ==
    Concat([i \in DOMAIN FilesRead |-> EntriesOfDefault(fs[InDir][FilesRead[i]].lines)])

SEncountered ==
    Concat([i \in DOMAIN FilesRead |->
                EntriesOfS(fs[InDir][FilesRead[i]].lines, FilesRead[i])])

ServerSEncountered ==
    Concat([i \in DOMAIN FilesRead |->
                EntriesOfServerS(fs[InDir][FilesRead[i]].lines, FilesRead[i])])

WithId(s, id) == SelectSeq(s, LAMBDA r : r.ID = id)

WithCores(s, c) == SelectSeq(s, LAMBDA r : r.Cores = c)

(***************************************************************************)
(* C4 as claimed.  After parse_default_logs there is exactly one CSV per   *)
(* distinct instruction id that produced a record, and the CSV of an id    *)
(* holds exactly the records of that id.                                   *)
(***************************************************************************)
C4_OneCsvPerInstructionId ==
    AfterDefault =>
        LET ids == { r.ID : r \in Range(DefaultEncountered) }
        IN  /\ Cardinality(DefaultCsvs) = Cardinality(ids)
            /\ \A id \in ids :
                   IsPermutation(Rows(DefaultCsvName(id)),
                                 WithId(DefaultEncountered, id))

(***************************************************************************)
(* C5 as claimed.  parse_s_logs takes the records of a file if and only if *)
(* the name of the file is avx_turbo_s<digits>_a<digits>.log and is not a  *)
(* server_s name, whatever the directory.  (Stated of the files whose      *)
(* lines carry the file name in their instruction id.)                     *)
(***************************************************************************)
DigitStrings == UNION { [1..k -> {"0", "1", "2", "3", "4"}] : k \in 1..2 }

NumericPart(sd, ad) == sd \o RegexInfix \o ad

IsVariantName(prefix, name) ==
    \E sd \in DigitStrings, ad \in DigitStrings :
        name = prefix \o NumericPart(sd, ad) \o <<".", "l", "o", "g">>

HasNumericPattern(prefix, name) ==
    \E sd \in DigitStrings, ad \in DigitStrings :
        Contains(name, prefix \o NumericPart(sd, ad))

RowsFrom(csv, name) == SelectSeq(Rows(csv), LAMBDA r : r.ID # << >> /\ Tail(r.ID) = name)

Tagged == { n \in DOMAIN fs[InDir] : fs[InDir][n].lines \in NameContents(n) }

C5_SLogsTakenByNameOnly ==
    AfterS =>
        \A name \in Tagged :
            RowsFrom(AllSCases, name) # << >>
                <=> /\ IsVariantName(SRegexPrefix, name)
                    /\ ~GlobMatch(ServerSPattern, name)

(***************************************************************************)
(* C6.  In default mode a line yields exactly one complete record if and   *)
(* only if it is not blank, starts with no rejected prefix, does not       *)
(* contain 'Cores | ID', has at least 5 fields, an integer field 0 and     *)
(* only numbers among the non-empty comma tokens of field 4 and of field 6 *)
(* (when present); every other line yields nothing.  (Stated of the runs   *)
(* whose default logs hold one line in all.)                               *)
(***************************************************************************)
Fields(line) == Split(Strip(line), "|")

AllNumbers(field) ==
    \A tok \in Range(Split(field, ",")) : Strip(tok) # << >> => IsFloat(Strip(tok))

ValidLine(line) ==
    /\ \E i \in DOMAIN line : line[i] \notin Whitespace
    /\ \A p \in RejectedPrefixes : ~StartsWith(line, p)
    /\ ~Contains(line, CoresHeader)
    /\ Len(Fields(line)) >= 5
    /\ IsInt(Fields(line)[1])
    /\ AllNumbers(Fields(line)[5])
    /\ Len(Fields(line)) >= 7 => AllNumbers(Fields(line)[7])

OneLineRead == Len(FilesRead) = 1 /\ Len(fs[InDir][FilesRead[1]].lines) = 1

TheLine == fs[InDir][FilesRead[1]].lines[1]

OneDefaultLine == AfterDefault /\ OneLineRead

TheDefaultLine == TheLine

CompleteRecord(r, line) ==
    /\ DOMAIN r = {"Cores", "ID", "Description", "Mops", "AMMHz"}
    /\ r.Cores = IntOf(Fields(line)[1])
    /\ r.ID = Strip(Fields(line)[2])
    /\ r.Description = Strip(Fields(line)[3])

C6_AllOrNothing ==
    OneDefaultLine =>
        IF ValidLine(TheDefaultLine)
        THEN /\ Cardinality(DefaultCsvs) = 1
             /\ \A n \in DefaultCsvs :
                    /\ Len(Rows(n)) = 1
                    /\ CompleteRecord(Rows(n)[1], TheDefaultLine)
        ELSE DefaultCsvs = {}

C6_Witness ==
    /\ OneDefaultLine
    /\ ~ValidLine(TheDefaultLine)
    /\ Len(Fields(TheDefaultLine)) >= 7
    /\ IsInt(Fields(TheDefaultLine)[1])
    /\ AllNumbers(Fields(TheDefaultLine)[5])
    /\ Len(Split(Fields(TheDefaultLine)[7], ",")) = 2

(***************************************************************************)
(* C7.  The rows of every output file are a permutation of the records     *)
(* collected for it and are in order: a default CSV holds the records of   *)
(* one instruction id by non-decreasing core count, those of equal core    *)
(* count in the order encountered; all_s_cases.csv and                     *)
(* all_server_s_cases.csv are in non-decreasing order of                   *)
(* (cores, sValue, aValue, instructionId).                                 *)
(***************************************************************************)
TupleLeq(x, y) ==
    \/ x.Cores < y.Cores
    \/ /\ x.Cores = y.Cores
       /\ \/ x.SValue < y.SValue
          \/ /\ x.SValue = y.SValue
             /\ \/ x.AValue < y.AValue
                \/ /\ x.AValue = y.AValue
                   /\ (x.ID = y.ID \/ StrLess(x.ID, y.ID))

VariantOrdered(rows, encountered) ==
    /\ IsPermutation(rows, encountered)
    /\ \A i, j \in DOMAIN rows : i < j => TupleLeq(rows[i], rows[j])

DefaultOrdered(rows) ==
    /\ rows # << >>
    /\ LET collected == WithId(DefaultEncountered, rows[1].ID)
       IN  /\ IsPermutation(rows, collected)
           /\ \A i, j \in DOMAIN rows : i < j => rows[i].Cores <= rows[j].Cores
           /\ \A i \in DOMAIN rows :
                  WithCores(rows, rows[i].Cores) = WithCores(collected, rows[i].Cores)

C7_RowsOrdered ==
    /\ AfterDefault => \A n \in DefaultCsvs : DefaultOrdered(Rows(n))
    /\ AfterS => VariantOrdered(Rows(AllSCases), SEncountered)
    /\ AfterServerS => VariantOrdered(Rows(AllServerSCases), ServerSEncountered)

C7_Witness ==
    /\ AfterS
    /\ Len(Rows(AllSCases)) >= 4
    /\ Rows(AllSCases) # SEncountered
    /\ \E i, j \in DOMAIN Rows(AllSCases) :
           /\ Rows(AllSCases)[i].Cores = Rows(AllSCases)[j].Cores
           /\ Rows(AllSCases)[i].SValue < Rows(AllSCases)[j].SValue

(***************************************************************************)
(* C8.  Every record of a file named avx_turbo_s<S>_a<A>.log (or           *)
(* avx_turbo_server_s<S>_a<A>.log) carries sValue = S and aValue = A, so   *)
(* the records of one file agree on both; a file whose name holds no       *)
(* numeric s/a pattern contributes no record.  (Stated of the files whose  *)
(* lines carry the file name in their instruction id.)                     *)
(***************************************************************************)
NamesDecoded(csv, prefix) ==
    \A name \in Tagged :
        LET rows == RowsFrom(csv, name)
        IN  /\ \A sd \in DigitStrings, ad \in DigitStrings :
                   name = prefix \o NumericPart(sd, ad) \o <<".", "l", "o", "g">>
                       => \A i \in DOMAIN rows :
                              /\ rows[i].SValue = DigitsVal(sd, 0)
                              /\ rows[i].AValue = DigitsVal(ad, 0)
            /\ \A i, j \in DOMAIN rows :
                   /\ rows[i].SValue = rows[j].SValue
                   /\ rows[i].AValue = rows[j].AValue
            /\ ~HasNumericPattern(prefix, name) => rows = << >>

C8_ValuesFromFileName ==
    /\ AfterS => NamesDecoded(AllSCases, SRegexPrefix)
    /\ AfterServerS => NamesDecoded(AllServerSCases, ServerSRegexPrefix)

C8_Witness ==
    /\ AfterS
    /\ \E n \in Tagged :
           /\ Len(RowsFrom(AllSCases, n)) = 3
           /\ RowsFrom(AllSCases, n)[1].SValue # RowsFrom(AllSCases, n)[1].AValue
    /\ \E n \in Tagged :
           /\ n \in Range(FilesRead)
           /\ ~HasNumericPattern(SRegexPrefix, n)

(***************************************************************************)
(* C9.  The stored throughput (field 4) and frequency (field 6) are the    *)
(* arithmetic mean of the non-empty comma tokens of the field: 0 when      *)
(* there is none, and the frequency is 0 when the line has fewer than 7    *)
(* fields.  (Stated of the stages that read one line in all.)              *)
(***************************************************************************)
TokenValues(field) ==
    LET toks == SelectSeq(Split(field, ","), LAMBDA x : Strip(x) # << >>)
    IN  [i \in DOMAIN toks |-> FloatOf(Strip(toks[i]))]

IsMeanOf(v, vals) ==
    IF vals = << >> THEN v = Zero
    ELSE v.n * (RatSum(vals).d * Len(vals)) = RatSum(vals).n * v.d

FrequencyOf(v, line) ==
    IF Len(Fields(line)) < 7 THEN v = Zero
    ELSE IsMeanOf(v, TokenValues(Fields(line)[7]))

C9_ArithmeticMean ==
    /\ (AfterDefault /\ OneLineRead) =>
           \A n \in DefaultCsvs : \A i \in DOMAIN Rows(n) :
               /\ IsMeanOf(Rows(n)[i].Mops, TokenValues(Fields(TheLine)[5]))
               /\ FrequencyOf(Rows(n)[i].AMMHz, TheLine)
    /\ (AfterS /\ OneLineRead) =>
           \A i \in DOMAIN Rows(AllSCases) :
               FrequencyOf(Rows(AllSCases)[i].AMMHz, TheLine)
    /\ (AfterServerS /\ OneLineRead) =>
           \A i \in DOMAIN Rows(AllServerSCases) :
               FrequencyOf(Rows(AllServerSCases)[i].AMMHz, TheLine)

C9_Witness ==
    /\ AfterDefault /\ OneLineRead
    /\ \E n \in DefaultCsvs :
           /\ Rows(n)[1].Mops = [n |-> 7, d |-> 4]
           /\ Rows(n)[1].AMMHz = [n |-> 5, d |-> 2]

(***************************************************************************)
(* C10 as claimed.  The three modes accept the same lines: a line yields a *)
(* record in parse_s_logs and in parse_server_s_logs if and only if it     *)
(* yields one in parse_default_logs.  (Stated of the runs whose default, s *)
(* and server_s log hold the same single line.)                            *)
(***************************************************************************)
PrimaryIn == fs[Canon(args.input_dir)]

PrimaryOut == fs[Canon(args.output_dir)]

SameLineRun ==
    /\ Done
    /\ exists(fs, args.input_dir)
    /\ ~Printed("ERROR:")
    /\ DOMAIN PrimaryIn = {Def1, S2A4, ServerS2A4}
    /\ Len(PrimaryIn[Def1].lines) = 1
    /\ \A n \in DOMAIN PrimaryIn : PrimaryIn[n].lines = PrimaryIn[Def1].lines

SharedLine == PrimaryIn[Def1].lines[1]

DefaultYields == \E n \in DOMAIN PrimaryOut : StartsWith(n, DefaultCsvPrefix)

SYields == PrimaryOut[AllSCases].rows # << >>

ServerSYields == PrimaryOut[AllServerSCases].rows # << >>

C10_SameLinesAccepted ==
    SameLineRun => (DefaultYields <=> SYields) /\ (DefaultYields <=> ServerSYields)

(***************************************************************************)
(* C10 as amended.  parse_s_logs and parse_server_s_logs accept the same   *)
(* lines, and parse_default_logs accepts a line if and only if they accept *)
(* it and every non-empty comma token of its field 4 is a number: the two  *)
(* s-variant modes do not read field 4.                                    *)
(***************************************************************************)
C10_VariantsIgnoreField4 ==
    SameLineRun =>
        /\ SYields <=> ServerSYields
        /\ DefaultYields <=> (SYields /\ AllNumbers(Fields(SharedLine)[5]))

C10_Witness ==
    /\ SameLineRun
    /\ SYields
    /\ ServerSYields
    /\ ~DefaultYields
    /\ ~AllNumbers(Fields(SharedLine)[5])

====
